---- MODULE Spec2Model ----
(***************************************************************************)
(* Model of fraps_performance_analyser.py: the command line dispatch of    *)
(* __main__ and the single pass of analyze() over a frame-time trace.      *)
(*                                                                         *)
(* Numbers.  Times are integers counted in hundredths of a millisecond     *)
(* (16.67 ms is 1667, the stutter margin 2.0 ms is 200).  Every quantity   *)
(* the program obtains by a division (frame rates, averages, percentages)  *)
(* is an exact rational <<numerator, denominator>> in lowest terms with a  *)
(* positive denominator; the rounding of Python's binary floats is not     *)
(* represented.                                                            *)
(*                                                                         *)
(* Rows.  Python's contents[0] is the header row and is the variable       *)
(* header; Python's contents[k] for k >= 1 is contents[k] here, a record   *)
(* [time, cols] where cols are the cells appended by analyze().  The frame *)
(* number in column 0 takes no part in any computation and is left out.    *)
(***************************************************************************)
EXTENDS Integers, Sequences, FiniteSets, TLC

\* ------------------------------------------------------------------------
\* Bounds of the explored inputs
\* ------------------------------------------------------------------------
MaxSamples == 4

\* timestamps (1/100 ms) the generic traces are built from
NiceT == {0, 100, 200, 400, 500}

\* the trace of the documented scenario: 0.0, 16.67, 33.33, 66.67 ms
Scenario == <<0, 1667, 3333, 6667>>

\* traces with a frame time of 0.01 ms, i.e. a frame rate of 100000 fps
TinyTraces == {<<0, 1>>, <<0, 100, 101>>}

Traces == (UNION {[1..n -> NiceT] : n \in 0..MaxSamples}) \cup {Scenario} \cup TinyTraces

\* the second command line argument: text that float() parses, or not
MarginArgs == {[num |-> TRUE, val |-> 5], [num |-> TRUE, val |-> 100],
               [num |-> TRUE, val |-> 200], [num |-> FALSE, val |-> 0]}

\* shapes of the input file
FileKinds == {"ok", "badcol2", "nonnumeric", "absent", "malformedrow"}

\* ------------------------------------------------------------------------
\* Exact rational arithmetic
\* ------------------------------------------------------------------------
Abs(x) == IF x < 0 THEN -x ELSE x

RECURSIVE GCD(_, _)
GCD(a, b) == IF b = 0 THEN a ELSE GCD(b, a % b)

Zero == <<0, 1>>

\* n/d in lowest terms; the program never forms a quotient with d = 0 (it
\* raises ZeroDivisionError first), the value given for it is a convention
Rat(n, d) ==
    IF d = 0 THEN Zero
    ELSE LET g == GCD(Abs(n), Abs(d))
             s == IF d < 0 THEN -1 ELSE 1
         IN  <<s * (n \div g), s * (d \div g)>>

RInt(k) == <<k, 1>>

LCM(a, b) == (a \div GCD(a, b)) * b

RAdd(p, q) ==
    LET l == LCM(p[2], q[2])
    IN  Rat(p[1] * (l \div p[2]) + q[1] * (l \div q[2]), l)

RNeg(p) == <<-p[1], p[2]>>
RSub(p, q) == RAdd(p, RNeg(q))

RMulInt(k, p) ==
    LET g == GCD(Abs(k), p[2])
    IN  Rat((k \div g) * p[1], p[2] \div g)

RDivInt(p, k) ==
    LET g == GCD(Abs(p[1]), Abs(k))
    IN  Rat(p[1] \div g, p[2] * (k \div g))

\* p / q; q = Zero as in Rat
RDiv(p, q) ==
    IF q[1] = 0 THEN Zero
    ELSE LET g1 == GCD(Abs(p[1]), Abs(q[1]))
             g2 == GCD(p[2], q[2])
         IN  Rat((p[1] \div g1) * (q[2] \div g2),
                 (p[2] \div g2) * (q[1] \div g1))

RLt(p, q) ==
    LET l == LCM(p[2], q[2])
    IN  p[1] * (l \div p[2]) < q[1] * (l \div q[2])

RLeq(p, q) == ~RLt(q, p)

RMin(p, q) == IF RLt(q, p) THEN q ELSE p
RMax(p, q) == IF RLt(p, q) THEN q ELSE p

\* ------------------------------------------------------------------------
\* Program constants
\* ------------------------------------------------------------------------
Stutter_Margin_Min == 10
Stutter_Margin_Max == 1010
DefaultMargin == 200
SR_Version == 3
SR_Min == Rat(124, 1000)
SR_Max == Rat(1001, 10)
SR_Verbal == <<"Practically Impossible", "Perfect", "Excellent", "Very Good",
               "Good", "Average", "Below Average", "Mediocre", "Atrocious",
               "Abysmal">>
fps_large_const == 90000

\* ------------------------------------------------------------------------
\* Helper functions of the program
\* ------------------------------------------------------------------------
binary_select1(expr, true_, false_) == IF expr THEN true_ ELSE false_

\* max(min(value, max_value), min_value) on rationals
clamp(value, min_value, max_value) == RMax(RMin(value, max_value), min_value)

moving_average_offbyone(avg, x, n) == RDivInt(RAdd(x, RMulInt(n, avg)), n + 2)

\* (x + n * avg) / (n + 1)
moving_average(avg, x, n) == RDivInt(RAdd(x, RMulInt(n, avg)), n + 1)

abs_identity(x) == x

abs(x) == IF x < 0 THEN -x ELSE x

Pow2(k) == IF k >= 0 THEN RInt(2 ^ k) ELSE Rat(1, 2 ^ (-k))

\* int(math.ceil(math.log(c, 2))) for SR_Min <= c <= SR_Max: the least k
\* with 2^k >= c
CeilLog2(c) == CHOOSE k \in -3..7 : RLeq(c, Pow2(k)) /\ RLt(Pow2(k - 1), c)

\* 1000 / frame_time with frame_time in 1/100 ms, frame_time # 0
FrameRate(frame_time) == Rat(100000, frame_time)

FrameDelta_wrong_column(frame_time, prev) == frame_time - prev.time

\* frame_time - prev[2]: column 2 of a row is the first appended cell
FrameDelta(frame_time, prev) == frame_time - prev.cols[1]

SmoothSample_swapped(visible_stutter, frame_rate) ==
    IF visible_stutter = 1 THEN frame_rate ELSE Zero

\* the value folded into fps_avg_smooth for one record
SmoothSample(visible_stutter, frame_rate) ==
    IF visible_stutter = 1 THEN Zero ELSE frame_rate

LoopDone_short(idx, rows) == idx >= Len(rows)

\* range(2, len(contents)) is exhausted; len(contents) counts the header
LoopDone(idx, rows) == idx >= Len(rows) + 1

DivFails_never(den) == FALSE

\* a division whose divisor is den raises ZeroDivisionError
DivFails(den) == den = 0

\* SR_Verbal[rc] raises IndexError (rc is never negative here)
IndexFails(rc) == rc >= Len(SR_Verbal)

\* rmax = len(SR_Verbal): the upper limit of the rank and the maximal score
rmax == Len(SR_Verbal)

\* the rank of an overall stutter percentage
Rank(overall_stutter) ==
    LET ovc == clamp(overall_stutter, SR_Min, SR_Max)
    IN  clamp(RInt(CeilLog2(ovc) + 3), RInt(0), RInt(rmax))[1]

\* the five cells appended to the first data row
FirstRowCols == <<0, Zero, 0, 0, 0>>

MarginInRange(sm) == Stutter_Margin_Min < sm /\ sm < Stutter_Margin_Max

ErrorKinds == {"MarginRange", "ValueError", "InvalidHeader", "IndexError",
               "ZeroDivisionError", "AssertionError"}

\* ------------------------------------------------------------------------
\* State
\* ------------------------------------------------------------------------
VARIABLES
    argc, marginArg, fileKind, samples,   \* the inputs of one run
    pc, outcome,                          \* position and final outcome
    stutter_margin,                       \* analyze's parameter
    routKind, routOpened, rout,           \* the report sink
    header, contents,                     \* the table read from the file
    i, stutter_samples, smooth_samples, extra_total_time,
    fps_min, fps_avg, fps_avg_smooth, fps_max,
    summary, rating, csvWritten

inputs == <<argc, marginArg, fileKind, samples>>
sink == <<routKind, routOpened, rout>>
table == <<header, contents>>
acc == <<i, stutter_samples, smooth_samples, extra_total_time,
         fps_min, fps_avg, fps_avg_smooth, fps_max>>
vars == <<inputs, pc, outcome, stutter_margin, sink, table, acc,
          summary, rating, csvWritten>>

NoSummary == [computed |-> FALSE, total_samples |-> 0,
              overall_smoothness |-> Zero, overall_stutter |-> Zero,
              overall_extra_time |-> Zero, overall_fps_avg_diff_ns |-> Zero]

NoRating == [tried |-> FALSE, ovc |-> Zero, rc |-> 0, label |-> "",
             score |-> 0, max_score |-> 0]

Init ==
    /\ argc \in 1..5
    /\ marginArg \in MarginArgs
    /\ argc \in {1, 2, 5} => marginArg = [num |-> TRUE, val |-> 200]
    /\ fileKind \in FileKinds
    /\ samples \in Traces
    /\ fileKind = "malformedrow" => Len(samples) >= 1
    /\ pc = "main"
    /\ outcome = ""
    /\ stutter_margin = 0
    /\ routKind = "stdout"
    /\ routOpened = FALSE
    /\ rout = <<>>
    /\ header = <<>>
    /\ contents = <<>>
    /\ i = 0
    /\ stutter_samples = 0
    /\ smooth_samples = 0
    /\ extra_total_time = 0
    /\ fps_min = Zero
    /\ fps_avg = Zero
    /\ fps_avg_smooth = Zero
    /\ fps_max = Zero
    /\ summary = NoSummary
    /\ rating = NoRating
    /\ csvWritten = FALSE

Finish(o) == pc' = "done" /\ outcome' = o

\* __main__: dispatch on the number of command line arguments
Main ==
    /\ pc = "main"
    /\ UNCHANGED <<inputs, rout, table, acc, summary, rating, csvWritten>>
    /\ IF argc = 2
       THEN /\ stutter_margin' = DefaultMargin
            /\ pc' = "read"
            /\ UNCHANGED <<outcome, routKind, routOpened>>
       ELSE IF argc \in {3, 4}
       THEN IF ~marginArg.num
            THEN /\ Finish("ValueError")
                 /\ UNCHANGED <<stutter_margin, routKind, routOpened>>
            ELSE IF ~MarginInRange(marginArg.val)
            THEN /\ Finish("MarginRange")
                 /\ UNCHANGED <<stutter_margin, routKind, routOpened>>
            ELSE /\ stutter_margin' = marginArg.val
                 /\ pc' = "read"
                 /\ routKind' = IF argc = 4 THEN "file" ELSE "stdout"
                 /\ routOpened' = (argc = 4)
                 /\ UNCHANGED outcome
       ELSE /\ Finish("help")
            /\ UNCHANGED <<stutter_margin, routKind, routOpened>>

\* analyze, up to the start of the loop: read and convert the rows, check
\* the header, append the new column labels and the first row's zeros,
\* initialise the accumulators
ReadCsv ==
    /\ pc = "read"
    /\ UNCHANGED <<inputs, stutter_margin, routKind, routOpened, summary,
                   rating, csvWritten>>
    /\ IF fileKind \in {"nonnumeric", "malformedrow"}
       THEN /\ Finish("ValueError")
            /\ UNCHANGED <<rout, table, acc>>
       ELSE IF fileKind = "absent" /\ samples = <<>>
       THEN /\ Finish("IndexError")
            /\ UNCHANGED <<rout, table, acc>>
       ELSE IF fileKind \in {"absent", "badcol2"}
       THEN /\ rout' = Append(rout, "ERROR: Unexpected headers!")
            /\ Finish("InvalidHeader")
            /\ UNCHANGED <<table, acc>>
       ELSE /\ header' = <<"Frame", " Time (ms)", " Frame Time (ms)",
                           " Frame Rate (fps)", " Frame Deltas (ms)",
                           " Extra Time (ms)", " Visible Stutter (b)">>
            /\ IF samples = <<>>
               THEN /\ contents' = <<>>
                    /\ Finish("IndexError")
                    /\ UNCHANGED <<rout, acc>>
               ELSE /\ contents' =
                         [k \in 1..Len(samples) |->
                            [time |-> samples[k],
                             cols |-> IF k = 1 THEN FirstRowCols ELSE <<>>]]
                    /\ stutter_samples' = 0
                    /\ smooth_samples' = 0
                    /\ extra_total_time' = 0
                    /\ fps_min' = RInt(fps_large_const)
                    /\ fps_avg' = Zero
                    /\ fps_avg_smooth' = Zero
                    /\ fps_max' = Zero
                    /\ i' = 2
                    /\ pc' = "loop"
                    /\ UNCHANGED <<rout, outcome>>

\* one iteration of "for i in range(2, len(contents))"
LoopStep ==
    /\ pc = "loop"
    /\ ~LoopDone(i, contents)
    /\ UNCHANGED <<inputs, stutter_margin, sink, header, summary, rating,
                   csvWritten>>
    /\ LET prev == contents[i - 1]
           curr == contents[i]
           frame_time == curr.time - prev.time
       IN  IF DivFails(frame_time)
           THEN /\ Finish("ZeroDivisionError")
                /\ UNCHANGED <<contents, acc>>
           ELSE
           LET frame_rate == FrameRate(frame_time)
               frame_delta == FrameDelta(frame_time, prev)
               extra_time_val == abs(frame_delta) - stutter_margin
               extra_time == binary_select1(extra_time_val > 0, extra_time_val, 0)
               visible_stutter == binary_select1(extra_time_val > 0, 1, 0)
               sample_n == i - 2
           IN  /\ IF visible_stutter = 1
                  THEN /\ stutter_samples' = stutter_samples + 1
                       /\ extra_total_time' = extra_total_time + extra_time_val
                       /\ UNCHANGED smooth_samples
                  ELSE /\ smooth_samples' = smooth_samples + 1
                       /\ UNCHANGED <<stutter_samples, extra_total_time>>
               /\ fps_avg_smooth' =
                      moving_average(fps_avg_smooth,
                                     SmoothSample(visible_stutter, frame_rate),
                                     sample_n)
               /\ IF ~RLt(frame_rate, RInt(fps_large_const))
                  THEN /\ Finish("AssertionError")
                       /\ UNCHANGED <<contents, i, fps_min, fps_avg, fps_max>>
                  ELSE /\ fps_max' = RMax(frame_rate, fps_max)
                       /\ fps_min' = RMin(frame_rate, fps_min)
                       /\ fps_avg' = moving_average(fps_avg, frame_rate, sample_n)
                       /\ contents' =
                            [contents EXCEPT ![i].cols =
                               <<frame_time, frame_rate, frame_delta,
                                 extra_time, visible_stutter>>]
                       /\ i' = i + 1
                       /\ UNCHANGED <<pc, outcome>>

\* the overall parameters computed after the loop
Summary ==
    /\ pc = "loop"
    /\ LoopDone(i, contents)
    /\ UNCHANGED <<inputs, stutter_margin, sink, table, acc, rating,
                   csvWritten>>
    /\ LET total_samples == stutter_samples + smooth_samples
           last_time == contents[Len(contents)].time
       IN  IF \/ DivFails(total_samples)
              \/ DivFails(last_time)
              \/ DivFails(fps_avg[1])
           THEN /\ Finish("ZeroDivisionError")
                /\ UNCHANGED summary
           ELSE /\ summary' =
                     [computed |-> TRUE,
                      total_samples |-> total_samples,
                      overall_smoothness |->
                          Rat(smooth_samples * 100, total_samples),
                      overall_stutter |->
                          Rat(stutter_samples * 100, total_samples),
                      overall_extra_time |->
                          Rat(extra_total_time * 100, last_time),
                      overall_fps_avg_diff_ns |->
                          RMulInt(100, RSub(RDiv(fps_avg_smooth, fps_avg),
                                            RInt(1)))]
                /\ pc' = "report"
                /\ UNCHANGED outcome

\* the lines from '<Results>' to 'Overall extra time' written to rout
PrintResults ==
    /\ pc = "report"
    /\ rout' = Append(rout, "<Results>")
    /\ pc' = "rating"
    /\ UNCHANGED <<inputs, outcome, stutter_margin, routKind, routOpened,
                   table, acc, summary, rating, csvWritten>>

\* the smoothness rating and its line of the report
PrintRating ==
    /\ pc = "rating"
    /\ UNCHANGED <<inputs, stutter_margin, routKind, routOpened, table, acc,
                   summary, csvWritten>>
    /\ LET ovc == clamp(summary.overall_stutter, SR_Min, SR_Max)
           rc == Rank(summary.overall_stutter)
       IN  IF IndexFails(rc)
           THEN /\ rating' = [tried |-> TRUE, ovc |-> ovc, rc |-> rc,
                              label |-> "", score |-> 0, max_score |-> 0]
                /\ Finish("IndexError")
                /\ UNCHANGED rout
           ELSE /\ rating' = [tried |-> TRUE, ovc |-> ovc, rc |-> rc,
                              label |-> SR_Verbal[rc + 1],
                              score |-> rmax - rc, max_score |-> rmax]
                /\ rout' = Append(rout, "Overall rating")
                /\ pc' = "write"
                /\ UNCHANGED outcome

\* the augmented table written to <stem>_fpa.<extension>
WriteCsv ==
    /\ pc = "write"
    /\ csvWritten' = TRUE
    /\ Finish("ok")
    /\ UNCHANGED <<inputs, stutter_margin, sink, table, acc, summary, rating>>

Next == Main \/ ReadCsv \/ LoopStep \/ Summary \/ PrintResults \/ PrintRating
        \/ WriteCsv

Spec == Init /\ [][Next]_vars

TypeOK ==
    /\ pc \in {"main", "read", "loop", "report", "rating", "write", "done"}
    /\ outcome \in ErrorKinds \cup {"", "ok", "help"}
    /\ stutter_samples >= 0 /\ smooth_samples >= 0

\* ------------------------------------------------------------------------
\* Vocabulary of the properties
\* ------------------------------------------------------------------------
\* rows of contents that carry the five derived cells of a processed pair
Derived == {k \in 2..Len(contents) : contents[k].cols # <<>>}

\* analyze() has been called
AnalyzeCalled == pc # "main" /\ stutter_margin # 0

\* the loop has been entered and no iteration was cut short by the assert
PairsProcessed == i >= 2 /\ outcome # "AssertionError"

StrictlyIncreasing ==
    \A k \in 1..(Len(samples) - 1) : samples[k] < samples[k + 1]

ReportEmitted == \E k \in 1..Len(rout) : rout[k] = "<Results>"

RECURSIVE SumRates(_)
\* the sum of the frame rates of rows 2..k
SumRates(k) == IF k < 2 THEN Zero ELSE RAdd(contents[k].cols[2], SumRates(k - 1))

\* overall stutter percentages of traces within the bounds
Percentages == {Rat(s * 100, t) : s \in 0..MaxSamples, t \in 1..MaxSamples}

\* ------------------------------------------------------------------------
\* C1: once the rating has been derived, the rank is
\* clamp(ceil(log2(clamp(p, SR_Min, SR_Max))) + 3, 0, len(SR_Verbal) - 1), a
\* valid index of SR_Verbal, so the lookup does not fail, the label is
\* SR_Verbal[rank] and the reported pair is len(SR_Verbal) - 1 - rank of
\* len(SR_Verbal) - 1.
C1_RatingAsSpecified ==
    rating.tried =>
        LET top == Len(SR_Verbal) - 1
            raw == CeilLog2(rating.ovc) + 3
            rank == IF raw < 0 THEN 0 ELSE IF raw > top THEN top ELSE raw
        IN  /\ outcome # "IndexError"
            /\ rating.rc = rank
            /\ rating.rc \in 0..top
            /\ rating.label = SR_Verbal[rank + 1]
            /\ rating.score = top - rank
            /\ rating.max_score = top

\* C2 as stated: the first derived record has frame_delta 0 and is never a
\* stutter; for 0.0, 16.67, 33.33, 66.67 with margin 2.0 records 1 and 2
\* are smooth and record 3 is a stutter with frame_delta 16.67 and
\* extra_time 14.67.
C2_FirstDeltaZero ==
    /\ 2 \in Derived =>
          /\ contents[2].cols[3] = 0
          /\ contents[2].cols[4] = 0
          /\ contents[2].cols[5] = 0
    /\ (samples = Scenario /\ stutter_margin = 200 /\ Derived = {2, 3, 4}) =>
          /\ contents[2].cols[4] = 0 /\ contents[2].cols[5] = 0
          /\ contents[3].cols[4] = 0 /\ contents[3].cols[5] = 0
          /\ contents[4].cols[3] = 1667
          /\ contents[4].cols[4] = 1467
          /\ contents[4].cols[5] = 1

\* C2 amended: the first derived record is compared with the zero cells of
\* the first data row, so its frame_delta is its own frame_time and it is a
\* stutter exactly when |frame_time| exceeds the margin; for 0.0, 16.67,
\* 33.33, 66.67 with margin 2.0 record 1 is a stutter (frame_delta 16.67,
\* extra_time 14.67), record 2 is smooth (frame_time 16.66, frame_delta
\* -0.01) and record 3 is a stutter (frame_time 33.34, frame_delta 16.68,
\* extra_time 14.68).
C2_FirstDeltaIsFrameTime ==
    /\ 2 \in Derived =>
          LET ft == contents[2].time - contents[1].time
              mag == IF ft < 0 THEN -ft ELSE ft
          IN  /\ contents[2].cols[1] = ft
              /\ contents[2].cols[3] = ft
              /\ contents[2].cols[5] = (IF mag > stutter_margin THEN 1 ELSE 0)
    /\ (samples = Scenario /\ stutter_margin = 200 /\ Derived = {2, 3, 4}) =>
          /\ contents[2].cols[3] = 1667
          /\ contents[2].cols[4] = 1467 /\ contents[2].cols[5] = 1
          /\ contents[3].cols[1] = 1666 /\ contents[3].cols[3] = -1
          /\ contents[3].cols[4] = 0 /\ contents[3].cols[5] = 0
          /\ contents[4].cols[1] = 3334 /\ contents[4].cols[3] = 1668
          /\ contents[4].cols[4] = 1468 /\ contents[4].cols[5] = 1

C2_Witness ==
    /\ samples = Scenario
    /\ stutter_margin = 200
    /\ Derived = {2, 3, 4}
    /\ pc = "done"

\* C3: when a consecutive pair of samples has frame_time <= 0, analyze stops
\* with an error at that pair: the pair gets no derived cells, no summary is
\* computed, no report is emitted and the augmented file is not written.
C3_NonPositiveFrameTimeIsError ==
    \A k \in 2..Len(samples) :
        samples[k] - samples[k - 1] <= 0 =>
            /\ k \notin Derived
            /\ ~summary.computed
            /\ ~ReportEmitted
            /\ ~csvWritten
            /\ (pc = "done" /\ AnalyzeCalled => outcome \in ErrorKinds)

\* C4: in a run that ends in an error nothing has been written to the report
\* sink and the report file has not been created or truncated.
C4_ErrorsLeaveNoReport ==
    outcome \in ErrorKinds => rout = <<>> /\ ~routOpened

\* C5: after k pairs have been processed smooth_samples + stutter_samples
\* = k and exactly k data rows (rows 2..k+1) carry derived values; at the
\* end of the pass the number of derived records and total_samples are
\* len(samples) - 1; an iteration increments exactly one of the counters.
C5_CountersMatchRecords ==
    /\ [](PairsProcessed =>
            /\ smooth_samples + stutter_samples = i - 2
            /\ Derived = 2..(i - 1)
            /\ Cardinality(Derived) = i - 2
            /\ i - 2 \in 0..(Len(samples) - 1)
            /\ summary.computed =>
                  /\ summary.total_samples = Len(samples) - 1
                  /\ Cardinality(Derived) = Len(samples) - 1)
    /\ [][(pc = "loop" /\ i' = i + 1) =>
            \/ /\ smooth_samples' = smooth_samples + 1
               /\ stutter_samples' = stutter_samples
            \/ /\ stutter_samples' = stutter_samples + 1
               /\ smooth_samples' = smooth_samples]_vars

C5_Witness ==
    /\ summary.computed
    /\ Len(samples) = MaxSamples
    /\ smooth_samples >= 1
    /\ stutter_samples >= 1

\* C6: for every derived record extra_time = max(0, |frame_delta| - margin),
\* the stutter flag is 1 exactly when extra_time > 0 and 0 otherwise, and a
\* record with |frame_delta| equal to the margin is smooth; the margin lies
\* strictly between 0.10 and 10.1 ms.
C6_ExtraTimeAndFlag ==
    \A k \in Derived :
        LET d == contents[k].cols[3]
            mag == IF d < 0 THEN -d ELSE d
            over == mag - stutter_margin
            e == contents[k].cols[4]
            f == contents[k].cols[5]
        IN  /\ stutter_margin > Stutter_Margin_Min
            /\ stutter_margin < Stutter_Margin_Max
            /\ e = (IF over > 0 THEN over ELSE 0)
            /\ f \in {0, 1}
            /\ (f = 1) <=> (e > 0)
            /\ (mag = stutter_margin) => (f = 0 /\ e = 0)

C6_Witness ==
    /\ \E k \in Derived :
          contents[k].cols[3] = -stutter_margin /\ contents[k].cols[5] = 0
    /\ \E k \in Derived :
          contents[k].cols[3] < -stutter_margin /\ contents[k].cols[5] = 1
    /\ \E k \in Derived :
          contents[k].cols[3] > stutter_margin /\ contents[k].cols[5] = 1

\* C7: the rating is monotonic in the overall stutter percentage: for every
\* percentage p below the one just rated, the rating of the larger one is
\* defined and its rank is not below the rank of p.
C7_RatingMonotonic ==
    rating.tried =>
        \A p \in Percentages :
            RLt(p, summary.overall_stutter) =>
                /\ rating.label # ""
                /\ outcome # "IndexError"
                /\ Rank(p) <= rating.rc

C9_TooFewSamplesIsError ==
    (Len(samples) < 2 /\ AnalyzeCalled) =>
        /\ ~summary.computed
        /\ pc \notin {"report", "rating", "write"}
        /\ ~ReportEmitted
        /\ ~csvWritten
        /\ pc = "done" =>
              /\ outcome \in ErrorKinds
              /\ fileKind = "ok" =>
                    outcome = (IF samples = <<>> THEN "IndexError"
                               ELSE "ZeroDivisionError")

C9_Witness ==
    /\ Len(samples) = 1
    /\ fileKind = "ok"
    /\ AnalyzeCalled
    /\ pc = "done"
    /\ outcome = "ZeroDivisionError"

\* C10: for strictly increasing timestamps, after each processed pair
\* 0 <= fps_avg_smooth <= fps_avg, with equality exactly when no stutter
\* record has been seen; the reported divergence lies in [-100, 0].
C10_SmoothAverageBelowAverage ==
    (StrictlyIncreasing /\ PairsProcessed) =>
        /\ RLeq(Zero, fps_avg_smooth)
        /\ RLeq(fps_avg_smooth, fps_avg)
        /\ (fps_avg_smooth = fps_avg) <=> (stutter_samples = 0)
        /\ summary.computed =>
              /\ RLeq(RInt(-100), summary.overall_fps_avg_diff_ns)
              /\ RLeq(summary.overall_fps_avg_diff_ns, Zero)

C10_Witness ==
    /\ StrictlyIncreasing
    /\ summary.computed
    /\ stutter_samples >= 1
    /\ smooth_samples >= 1
    /\ RLt(RInt(-100), summary.overall_fps_avg_diff_ns)
    /\ RLt(summary.overall_fps_avg_diff_ns, Zero)

====
